---- MODULE Spec2Model ----
(***************************************************************************)
(* Rating engine of sports_elo (src/elo.py): the pairwise Elo update and   *)
(* the three replay functions compute_singles_ratings,                     *)
(* compute_doubles_ratings and compute_ffa_ratings (Spec), and the match   *)
(* entry helpers of src/data_utils.py that fill the tables (SpecStore).    *)
(*                                                                         *)
(* Numbers.  The code works on Python floats and rounds every stored       *)
(* rating to 2 decimals.  Here a stored rating is an integer number of     *)
(* hundredths (1000 is 100000).  expected_score and update_elo take their  *)
(* ratings in half hundredths, the unit in which the mean of two stored    *)
(* ratings is exact.  An expected score is a fixed-point number with ONE   *)
(* standing for 1.0; a rating change that the code holds unrounded is the  *)
(* exact integer  result - expected  (scale ONE), and is turned into       *)
(* hundredths only by round2, as round(x, 2) does in the code.             *)
(***************************************************************************)
EXTENDS Integers, Sequences, FiniteSets

VARIABLES
  computer,      \* which of the three replay functions was called
  players,       \* its argument players: the seed set
  matches,       \* its argument matches, as far as the for loop has read it
  ratings,       \* dict player -> current rating
  history,       \* dict player -> list of (match_number, rating)
  match_number,  \* the accepted match counter
  raised,        \* the exception that ended the call, "none" while it runs
  singles_matches,  \* table singles_matches: its rows in id order
  doubles_matches,  \* table doubles_matches: its rows in id order
  ffa_matches,      \* table ffa_matches in id order, each with its ffa_results rows
  call,          \* the last call of a match entry helper, with its arguments
  returned,      \* what that call returned, "Exception" if it raised
  frames,        \* the locals of two calls of the replay functions in progress
  used,          \* connections taken from the pool and not yet put back
  conn           \* per user of get_conn: where it is and what was done to its connection

replay_vars == << computer, players, matches, ratings, history, match_number, raised >>

store_vars == << singles_matches, doubles_matches, ffa_matches, call, returned >>

pair_vars == << frames >>

conn_vars == << used, conn >>

vars == << computer, players, matches, ratings, history, match_number, raised,
           singles_matches, doubles_matches, ffa_matches, call, returned,
           frames, used, conn >>

\* ---------------------------------------------------------------- bounds
MaxMatches == 3

\* ------------------------------------------------------ program constants
DEFAULT_RATING == 100000
K == 32
Cents == 100
ONE == 100000000
Half == 2

\* K * inc / ONE points  =  inc / KDen hundredths
KDen == ONE \div (K * Cents)

\* ------------------------------------------------------------ Core ELO math

\* 10^(-2^(j-1) / (400 * Cents * Half)) at scale ONE, j = 1..17: the factors of
\* pow(10, -d/400) for a rating gap of d half hundredths written in binary.
Pow10Tab ==
  << 99997122, 99994244, 99988488, 99976977, 99953959, 99907939, 99815963,
     99632264, 99265881, 98537151, 97095701, 94275751, 88879172, 78995072,
     62402214, 38940363, 15163519 >>

\* floor(a * b / ONE) for 0 <= a, b <= ONE, in 32-bit steps
MulOne(a, b) ==
  LET a1 == a \div 10000
      a0 == a % 10000
      b1 == b \div 10000
      b0 == b % 10000
  IN  a1 * b1 + ((a1 * b0 + a0 * b1 + ((a0 * b0) \div 10000)) \div 10000)

RECURSIVE Pow10Neg(_, _, _, _)
\* pow(10, -d/400) for a gap of d >= 0 half hundredths; c is the factor of bit j
Pow10Neg(d, j, c, acc) ==
  IF d = 0 THEN acc
  ELSE Pow10Neg(d \div 2, j + 1,
                IF j < Len(Pow10Tab) THEN Pow10Tab[j + 1] ELSE MulOne(c, c),
                IF d % 2 = 1 THEN MulOne(acc, c) ELSE acc)

RECURSIVE LongDiv(_, _, _, _)
\* k more decimal digits of r / d, appended to q
LongDiv(r, d, k, q) ==
  IF k = 0 THEN q
  ELSE LongDiv((10 * r) % d, d, k - 1, 10 * q + ((10 * r) \div d))

\* 1 / (1 + pow(10, -d/400)): the expected score of the side that is d ahead
Favourite(d) == LongDiv(ONE, ONE + Pow10Neg(d, 1, Pow10Tab[1], ONE), 8, 0)

expected_score(ra, rb) ==
  IF rb - ra <= 0 THEN Favourite(ra - rb) ELSE ONE - Favourite(rb - ra)

\* update_elo with a bug in line 25: rb_new = rb + K * ((1 - result_a) - ea)
update_elo_unmirrored(ra, rb, result_a) ==
  LET ea == expected_score(ra, rb)
  IN  << [base |-> ra, inc |-> result_a - ea],
         [base |-> rb, inc |-> (ONE - result_a) - ea] >>

\* update_elo with a bug in line 24: ra_new = ra - K * (result_a - ea)
update_elo_minus(ra, rb, result_a) ==
  LET ea == expected_score(ra, rb)
  IN  << [base |-> ra, inc |-> ea - result_a],
         [base |-> rb, inc |-> (ONE - result_a) - (ONE - ea)] >>

\* The unrounded pair (ra_new, rb_new): each as the rating it starts from and
\* the signed increment inc, meaning base + K * inc / ONE.
update_elo(ra, rb, result_a) ==
  LET ea == expected_score(ra, rb)
  IN  << [base |-> ra, inc |-> result_a - ea],
         [base |-> rb, inc |-> (ONE - result_a) - (ONE - ea)] >>

\* round with a bug: round(x, 1), the change is rounded to tenths
round2_one_decimal(r, inc, w) ==
  r + 10 * ((inc + 5 * KDen * w) \div (10 * KDen * w))

\* round with a bug: the digits after the second decimal are cut off
round2_truncate(r, inc, w) == r + (inc \div (KDen * w))

\* round(r + K * inc / (ONE * w), 2) for a stored rating r (hundredths):
\* to the nearest hundredth, an exact half going to the even hundredth.
round2(r, inc, w) ==
  LET den == KDen * w
      q   == inc \div den
      rem == inc % den
  IN  IF 2 * rem < den THEN r + q
      ELSE IF 2 * rem > den THEN r + q + 1
      ELSE IF (r + q) % 2 = 0 THEN r + q ELSE r + q + 1

\* ------------------------------------------------------------------ inputs
Players == {"A", "B", "C", "D"}

SeedSets == {{}, {"A", "B", "C"}}

\* (score1, score2): a win of side 1, two wins of side 2 or 1, and a draw
ScorePairs == {<<11, 5>>, <<3, 11>>, <<11, 9>>, <<5, 5>>}

SinglesPairs ==
  {<<"A", "B">>, <<"A", "C">>, <<"B", "C">>, <<"D", "D">>}

SinglesRecords ==
  {[player1 |-> pp[1], player2 |-> pp[2], score1 |-> ss[1], score2 |-> ss[2]] :
     pp \in SinglesPairs, ss \in ScorePairs}

DoublesPairs ==
  { << <<"A", "B">>, <<"C", "D">> >>, << <<"A", "C">>, <<"B", "D">> >>,
    << <<"A", "B">>, <<"B", "C">> >>, << <<"D", "D">>, <<"A", "B">> >> }

DoublesRecords ==
  {[team1 |-> tt[1], team2 |-> tt[2], score1 |-> ss[1], score2 |-> ss[2]] :
     tt \in DoublesPairs, ss \in ScorePairs \ {<<11, 9>>}}

Lineups ==
  {<<"D">>, <<"A", "B">>, <<"C", "C">>, <<"A", "B", "C">>}

\* 1-based standings of n players: every strict order, and all tied
Standings(n) ==
  {rk \in [1..n -> 1..n] : \A i, j \in 1..n : rk[i] = rk[j] => i = j}
    \cup {[i \in 1..n |-> 1]}

FfaRecords ==
  UNION {{[results |-> [i \in 1..Len(ps) |-> [player |-> ps[i], rank |-> rk[i]]]] :
            rk \in Standings(Len(ps))} : ps \in Lineups}

\* records that lack a key the loop reads
SinglesBroken ==
  {[player1 |-> "A", player2 |-> "B", score1 |-> 11],
   [player2 |-> "B", score1 |-> 3, score2 |-> 11]}

DoublesBroken ==
  {[team1 |-> <<"A", "B">>, score1 |-> 11, score2 |-> 5],
   [team1 |-> <<"A", "B">>, team2 |-> <<"C", "D">>, score2 |-> 11]}

FfaBroken ==
  {[date |-> "2024-01-01"],
   [results |-> << [player |-> "A", rank |-> 1], [player |-> "B"] >>],
   [results |-> << [rank |-> 1], [player |-> "B", rank |-> 2] >>]}

\* ------------------------------------------------------------------- dicts
\* d[k] = v of a dict
Put(d, k, v) == [x \in (DOMAIN d) \cup {k} |-> IF x = k THEN v ELSE d[x]]

\* the dict after reading d[k] of a defaultdict whose default is dflt
Touch(d, k, dflt) == IF k \in DOMAIN d THEN d ELSE Put(d, k, dflt)

\* lines 143-144 with a bug: a history starts empty
Baseline_unset == << >>

\* lines 143-144: history[p] = [(0, DEFAULT_RATING)]
Baseline == << <<0, DEFAULT_RATING>> >>

\* history[p].append((n, r)) with a bug: the previous entry of the player is
\* replaced, only the baseline and the latest match are kept
AppendHistory_latest(h, p, n, r) ==
  LET h1 == Touch(h, p, Baseline) IN Put(h1, p, << Head(h1[p]), <<n, r>> >>)

\* history[p].append((n, r)) with a bug: the histories share one list, so the
\* entry lands in the history of every player
AppendHistory_shared(h, p, n, r) ==
  LET h1 == Touch(h, p, Baseline)
  IN  [x \in DOMAIN h1 |-> Append(h1[x], <<n, r>>)]

\* history[p].append((n, r)) of the defaultdict history
AppendHistory(h, p, n, r) ==
  LET h1 == Touch(h, p, Baseline) IN Put(h1, p, Append(h1[p], <<n, r>>))

\* the replay state of one call
State == [ratings |-> ratings, history |-> history, match_number |-> match_number]

\* ------------------------------------------------- Singles ELO computation
\* lines 150-153 with a bug: the history of a late player starts at the
\* current match instead of the baseline (0, 1000)
singles_register_late(st, p) ==
  IF p \notin DOMAIN st.ratings
    THEN [st EXCEPT !.ratings = Put(st.ratings, p, DEFAULT_RATING),
                    !.history = Put(st.history, p,
                                    << <<st.match_number, DEFAULT_RATING>> >>)]
    ELSE st

\* lines 150-153, one player
singles_register(st, p) ==
  IF p \notin DOMAIN st.ratings
    THEN [st EXCEPT !.ratings = Put(st.ratings, p, DEFAULT_RATING),
                    !.history = Put(st.history, p, Baseline)]
    ELSE st

\* line 155 with a bug: a skipped match still takes a sequence number
singles_skip_counted(st) == [st EXCEPT !.match_number = st.match_number + 1]

\* lines 155-156: the state a skipped match leaves
singles_skip(st) == st

\* line 155 with a bug: the comparison of the scores is lost
singles_tie_never(s1, s2) == FALSE

\* line 155: if s1 == s2
singles_tie(s1, s2) == s1 = s2

\* the body of the for loop for one match
\* lines 147-148: match["player1"], match["player2"], match["score1"],
\* match["score2"]; a missing key raises KeyError
singles_key_error(match) ==
  ~ ({"player1", "player2", "score1", "score2"} \subseteq DOMAIN match)

singles_match(st, match) ==
  LET p1 == match.player1
      p2 == match.player2
      s1 == match.score1
      s2 == match.score2
      s0 == singles_register(singles_register(st, p1), p2)
  IN  IF singles_tie(s1, s2) THEN singles_skip(s0)
      ELSE
        LET winner == IF s1 > s2 THEN p1 ELSE p2
            loser  == IF s1 > s2 THEN p2 ELSE p1
            rw     == s0.ratings[winner]
            rl     == s0.ratings[loser]
            new    == update_elo(Half * rw, Half * rl, ONE)
            rw_new == round2(rw, new[1].inc, 1)
            rl_new == round2(rl, new[2].inc, 1)
        IN  [ratings |-> Put(Put(s0.ratings, winner, rw_new), loser, rl_new),
             history |->
               LET h1 == Put(s0.history, winner,
                             Append(s0.history[winner], <<s0.match_number, rw_new>>))
               IN  Put(h1, loser, Append(h1[loser], <<s0.match_number, rl_new>>)),
             match_number |-> s0.match_number + 1]

\* ------------------------------------------------- Doubles ELO computation
ToSet(seq) == {seq[i] : i \in 1..Len(seq)}

RECURSIVE TouchAll(_, _, _)
\* the defaultdict d after d[p] was read for every p of the list ps
TouchAll(d, ps, dflt) ==
  IF ps = << >> THEN d ELSE TouchAll(Touch(d, Head(ps), dflt), Tail(ps), dflt)

RECURSIVE SumRatings(_, _)
SumRatings(d, ps) ==
  IF ps = << >> THEN 0 ELSE d[Head(ps)] + SumRatings(d, Tail(ps))

\* lines 207-208 with a bug: the sum is not divided by the size of the team
team_rating_sum(rat, team) == Half * SumRatings(rat, team)

\* sum(ratings[p] for p in team) / len(team), in half hundredths
team_rating(rat, team) == (Half * SumRatings(rat, team)) \div Len(team)

\* lines 213-216 and 218-221 with a bug: only the first member of the team
\* is updated
doubles_apply_first_only(st, team, inc) ==
  IF team = << >> THEN st
  ELSE
    LET p == Head(team)
        r == round2(st.ratings[p], inc, 1)
    IN  [st EXCEPT !.ratings = Put(st.ratings, p, r),
                   !.history = AppendHistory(st.history, p, st.match_number, r)]

RECURSIVE doubles_apply(_, _, _)
\* lines 213-216 and 218-221: the loop over one team with that team's delta
doubles_apply(st, team, inc) ==
  IF team = << >> THEN st
  ELSE
    LET p == Head(team)
        r == round2(st.ratings[p], inc, 1)
    IN  doubles_apply([st EXCEPT !.ratings = Put(st.ratings, p, r),
                                 !.history = AppendHistory(st.history, p, st.match_number, r)],
                      Tail(team), inc)

\* line 204 with a bug: the test for a shared player is lost
doubles_rejected_scores_only(team1, team2, s1, s2) == s1 = s2

\* line 204: if s1 == s2 or set(team1) & set(team2)
doubles_rejected(team1, team2, s1, s2) ==
  s1 = s2 \/ ToSet(team1) \cap ToSet(team2) # {}

\* line 210 with a bug: the team listed first is taken as the winner
doubles_result_first_listed(s1, s2) == ONE

\* line 210: result = 1 if s1 > s2 else 0
doubles_result(s1, s2) == IF s1 > s2 THEN ONE ELSE 0

\* lines 200-201: match["team1"], match["team2"], match["score1"],
\* match["score2"]; a missing key raises KeyError
doubles_key_error(match) ==
  ~ ({"team1", "team2", "score1", "score2"} \subseteq DOMAIN match)

doubles_match(st, match) ==
  LET team1 == match.team1
      team2 == match.team2
      s1 == match.score1
      s2 == match.score2
  IN  IF doubles_rejected(team1, team2, s1, s2) THEN st
      ELSE
        LET rat    == TouchAll(TouchAll(st.ratings, team1, DEFAULT_RATING), team2, DEFAULT_RATING)
            r1     == team_rating(rat, team1)
            r2     == team_rating(rat, team2)
            result == doubles_result(s1, s2)
            new    == update_elo(r1, r2, result)
            st1    == doubles_apply([st EXCEPT !.ratings = rat], team1, new[1].inc)
            st2    == doubles_apply(st1, team2, new[2].inc)
        IN  [st2 EXCEPT !.match_number = st.match_number + 1]

\* --------------------------------------------- Free-for-all ELO computation
\* lines 278-283 with a bug: equal ranks are scored as a win of the player
\* listed first
ffa_result_no_draw(rank_i, rank_j) == IF rank_i <= rank_j THEN ONE ELSE 0

\* lines 278-283: result_i from the two ranks, lower rank wins
ffa_result(rank_i, rank_j) ==
  IF rank_i < rank_j THEN ONE
  ELSE IF rank_i > rank_j THEN 0
  ELSE ONE \div 2

\* lines 270-288 with a bug: the pair's result is written to the ratings at
\* once instead of being accumulated in elo_deltas
ffa_pair_immediate(acc, res_i, res_j) ==
  LET pi_ == res_i.player
      pj  == res_j.player
      rat == Touch(Touch(acc.ratings, pi_, DEFAULT_RATING), pj, DEFAULT_RATING)
      result_i == ffa_result(res_i.rank, res_j.rank)
      ei  == expected_score(Half * rat[pi_], Half * rat[pj])
      r1  == Put(rat, pi_, round2(rat[pi_], result_i - ei, 2))
      r2  == Put(r1, pj, round2(r1[pj], (ONE - result_i) - (ONE - ei), 2))
  IN  [ratings |-> r2,
       elo_deltas |-> Touch(Touch(acc.elo_deltas, pi_, 0), pj, 0)]

\* lines 270-288: one pair (i, j); acc = [ratings, elo_deltas]
ffa_pair(acc, res_i, res_j) ==
  LET pi_ == res_i.player
      pj  == res_j.player
      rat == Touch(Touch(acc.ratings, pi_, DEFAULT_RATING), pj, DEFAULT_RATING)
      ri  == rat[pi_]
      rj  == rat[pj]
      result_i == ffa_result(res_i.rank, res_j.rank)
      ei  == expected_score(Half * ri, Half * rj)
      d0  == Touch(acc.elo_deltas, pi_, 0)
      d1  == Put(d0, pi_, d0[pi_] + (result_i - ei))
      d2  == Touch(d1, pj, 0)
      d3  == Put(d2, pj, d2[pj] + ((ONE - result_i) - (ONE - ei)))
  IN  [ratings |-> rat, elo_deltas |-> d3]

RECURSIVE ffa_pairs(_, _, _, _)
\* lines 268-269: for i in range(n): for j in range(i + 1, n)
ffa_pairs(acc, results, i, j) ==
  LET n == Len(results) IN
  IF i > n THEN acc
  ELSE IF j > n THEN ffa_pairs(acc, results, i + 1, i + 2)
  ELSE ffa_pairs(ffa_pair(acc, results[i], results[j]), results, i, j + 1)

RECURSIVE ffa_apply_stale(_, _, _, _)
\* lines 290-293 with a bug: the history entry is appended before the rating
\* is updated and so holds the rating from before the match
ffa_apply_stale(st, results, elo_deltas, w) ==
  IF results = << >> THEN st
  ELSE
    LET p  == Head(results).player
        d  == Touch(elo_deltas, p, 0)
        r0 == Touch(st.ratings, p, DEFAULT_RATING)
        r  == round2(r0[p], d[p], w)
    IN  ffa_apply_stale([st EXCEPT !.ratings = Put(r0, p, r),
                                   !.history = AppendHistory(st.history, p, st.match_number, r0[p])],
                        Tail(results), d, w)

RECURSIVE ffa_apply(_, _, _, _)
\* lines 290-293: the loop that writes the ratings and the history
ffa_apply(st, results, elo_deltas, w) ==
  IF results = << >> THEN st
  ELSE
    LET p  == Head(results).player
        d  == Touch(elo_deltas, p, 0)
        r0 == Touch(st.ratings, p, DEFAULT_RATING)
        r  == round2(r0[p], d[p], w)
    IN  ffa_apply([st EXCEPT !.ratings = Put(r0, p, r),
                             !.history = AppendHistory(st.history, p, st.match_number, r)],
                  Tail(results), d, w)

\* line 264 with a bug: every pair counts in full, weight = 1
ffa_weight_one(n) == 1

\* line 264 with a bug: weight = 1 / n
ffa_weight_n(n) == n

\* line 264: weight = 1 / (n - 1), as the divisor
ffa_weight(n) == n - 1

\* line 259: results = match.get("results", [])
ffa_results(match) == IF "results" \in DOMAIN match THEN match.results ELSE << >>

\* lines 260 and 270-277: with two results or more every result is read for
\* its "player" and its "rank" in some pair; a missing key raises KeyError
ffa_key_error(match) ==
  /\ Len(ffa_results(match)) >= 2
  /\ \E i \in 1..Len(ffa_results(match)) :
       ~ ({"player", "rank"} \subseteq DOMAIN ffa_results(match)[i])

\* lines 260-261 with a bug: the skipped match uses up a sequence number
ffa_skip_counted(st) == [st EXCEPT !.match_number = st.match_number + 1]

\* lines 260-261: if len(results) < 2: continue
ffa_skip(st) == st

ffa_match(st, match) ==
  LET results == ffa_results(match)
      n == Len(results)
  IN  IF n < 2 THEN ffa_skip(st)
      ELSE
        LET acc == ffa_pairs([ratings |-> st.ratings, elo_deltas |-> << >>], results, 1, 2)
            st1 == ffa_apply([st EXCEPT !.ratings = acc.ratings], results, acc.elo_deltas,
                             ffa_weight(n))
        IN  [st1 EXCEPT !.match_number = st.match_number + 1]

\* ------------------------------------------------------------ state machine
\* One call of one of the three functions.  Each step is one pass of its for
\* loop over the next record of the argument matches; the list may end after
\* any pass, so every reachable state is what the call returns for the list
\* matches: (ratings, history, matches).
Init ==
  /\ computer \in {"singles", "doubles", "ffa"}
  /\ players \in SeedSets
  /\ matches = << >>
  /\ ratings = [p \in players |-> DEFAULT_RATING]
  /\ history = [p \in players |-> Baseline]
  /\ match_number = 1
  /\ raised = "none"
  /\ singles_matches = << >> /\ doubles_matches = << >> /\ ffa_matches = << >>
  /\ call = [fn |-> "none"] /\ returned = "none"
  /\ frames = << >> /\ used = 0 /\ conn = << >>

\* lines 146-169 with a bug: a record the pass skipped is dropped from the
\* list that is returned
Replay_accepted_only(st, match) ==
  /\ matches' = IF st.match_number = match_number THEN matches ELSE Append(matches, match)
  /\ ratings' = st.ratings
  /\ history' = st.history
  /\ match_number' = st.match_number
  /\ UNCHANGED << computer, players, raised >>
  /\ UNCHANGED << store_vars, pair_vars, conn_vars >>

\* lines 146-169, 198-225 and 258-297: one pass of the for loop, leaving the
\* list itself as it is
Replay(st, match) ==
  /\ matches' = Append(matches, match)
  /\ ratings' = st.ratings
  /\ history' = st.history
  /\ match_number' = st.match_number
  /\ UNCHANGED << computer, players, raised >>
  /\ UNCHANGED << store_vars, pair_vars, conn_vars >>

\* the pass over match raises: the call ends without a return value, what its
\* locals held is lost with it
Raise(match, exception) ==
  /\ matches' = Append(matches, match)
  /\ raised' = exception
  /\ UNCHANGED << computer, players, ratings, history, match_number >>
  /\ UNCHANGED << store_vars, pair_vars, conn_vars >>

compute_singles_ratings ==
  /\ computer = "singles" /\ raised = "none" /\ Len(matches) < MaxMatches
  /\ \E match \in SinglesRecords \cup SinglesBroken :
       IF singles_key_error(match) THEN Raise(match, "KeyError")
       ELSE Replay(singles_match(State, match), match)

compute_doubles_ratings ==
  /\ computer = "doubles" /\ raised = "none" /\ Len(matches) < MaxMatches
  /\ \E match \in DoublesRecords \cup DoublesBroken :
       IF doubles_key_error(match) THEN Raise(match, "KeyError")
       ELSE Replay(doubles_match(State, match), match)

compute_ffa_ratings ==
  /\ computer = "ffa" /\ raised = "none" /\ Len(matches) < MaxMatches
  /\ \E match \in FfaRecords \cup FfaBroken :
       IF ffa_key_error(match) THEN Raise(match, "KeyError")
       ELSE Replay(ffa_match(State, match), match)

Next ==
  \/ compute_singles_ratings
  \/ compute_doubles_ratings
  \/ compute_ffa_ratings

Spec == Init /\ [][Next]_vars

\* ------------------------------------- match entry helpers (data_utils.py)
\* The helpers of src/data_utils.py, lines 285-382, on the tables of one
\* sport.  Player ids are written as the players' letters.  The helpers of
\* the same names in src/elo.py, lines 340-399, make the same tests and
\* append the same record to a JSON file.
MaxStored == 2

EntryScores == {<<11, 5>>, <<3, 11>>, <<5, 5>>}

SinglesCalls ==
  {[fn |-> "add_singles_match", player1_id |-> p1, player2_id |-> p2,
    score1 |-> ss[1], score2 |-> ss[2]] : p1 \in {"A", "B"}, p2 \in {"A", "B"}, ss \in EntryScores}

DoublesCalls ==
  {[fn |-> "add_doubles_match", t1p1_id |-> tt[1][1], t1p2_id |-> tt[1][2],
    t2p1_id |-> tt[2][1], t2p2_id |-> tt[2][2],
    score1 |-> ss[1], score2 |-> ss[2]] : tt \in DoublesPairs, ss \in EntryScores}

FfaCalls ==
  UNION {{[fn |-> "add_ffa_match",
           results |-> [i \in 1..Len(ps) |-> [player_id |-> ps[i], score |-> 0, rank |-> rk[i]]]] :
            rk \in Standings(Len(ps))} : ps \in Lineups}

\* rows in all the tables of matches
Stored == Len(singles_matches) + Len(doubles_matches) + Len(ffa_matches)

\* lines 287-290 with a bug: the test for tied scores is lost
singles_error_ties_pass(player1_id, player2_id, score1, score2) ==
  IF player1_id = player2_id THEN "Players must be different." ELSE "None"

\* lines 287-290: the tests of add_singles_match; "None" if both pass
singles_error(player1_id, player2_id, score1, score2) ==
  IF player1_id = player2_id THEN "Players must be different."
  ELSE IF score1 = score2 THEN "No ties allowed."
  ELSE "None"

\* lines 313-318 with a bug: the test for tied scores is lost
doubles_error_ties_pass(t1p1_id, t1p2_id, t2p1_id, t2p2_id, score1, score2) ==
  IF {t1p1_id, t1p2_id} \cap {t2p1_id, t2p2_id} # {} THEN "Teams cannot share players."
  ELSE "None"

\* lines 313-318: the tests of add_doubles_match; "None" if both pass
doubles_error(t1p1_id, t1p2_id, t2p1_id, t2p2_id, score1, score2) ==
  IF {t1p1_id, t1p2_id} \cap {t2p1_id, t2p2_id} # {} THEN "Teams cannot share players."
  ELSE IF score1 = score2 THEN "No ties allowed."
  ELSE "None"

\* lines 355-356: the test of add_ffa_match
ffa_error(results) ==
  IF Len(results) < 2 THEN "Need at least 2 players." ELSE "None"

InitStore ==
  /\ computer = "none" /\ players = {} /\ matches = << >>
  /\ ratings = << >> /\ history = << >> /\ match_number = 1 /\ raised = "none"
  /\ singles_matches = << >> /\ doubles_matches = << >> /\ ffa_matches = << >>
  /\ call = [fn |-> "none"] /\ returned = "none"
  /\ frames = << >> /\ used = 0 /\ conn = << >>

\* the helper returns its error string before it touches the database
Rejected(error) ==
  /\ returned' = error
  /\ UNCHANGED << singles_matches, doubles_matches, ffa_matches >>

\* src/db.py lines 48-50: the block under get_conn() raised, the transaction
\* is rolled back and the exception goes on to the caller
RolledBack ==
  /\ returned' = "Exception"
  /\ UNCHANGED << singles_matches, doubles_matches, ffa_matches >>

add_singles_match ==
  /\ Stored < MaxStored
  /\ \E c \in SinglesCalls :
       LET error == singles_error(c.player1_id, c.player2_id, c.score1, c.score2) IN
       /\ call' = c
       /\ IF error # "None" THEN Rejected(error)
          ELSE \/ /\ singles_matches' = Append(singles_matches,
                       [player1_id |-> c.player1_id, player2_id |-> c.player2_id,
                        score1 |-> c.score1, score2 |-> c.score2])
                  /\ returned' = "None"
                  /\ UNCHANGED << doubles_matches, ffa_matches >>
               \/ RolledBack
  /\ UNCHANGED << replay_vars, pair_vars, conn_vars >>

add_doubles_match ==
  /\ Stored < MaxStored
  /\ \E c \in DoublesCalls :
       LET error == doubles_error(c.t1p1_id, c.t1p2_id, c.t2p1_id, c.t2p2_id,
                                  c.score1, c.score2) IN
       /\ call' = c
       /\ IF error # "None" THEN Rejected(error)
          ELSE \/ /\ doubles_matches' = Append(doubles_matches,
                       [team1_player1_id |-> c.t1p1_id, team1_player2_id |-> c.t1p2_id,
                        team2_player1_id |-> c.t2p1_id, team2_player2_id |-> c.t2p2_id,
                        score1 |-> c.score1, score2 |-> c.score2])
                  /\ returned' = "None"
                  /\ UNCHANGED << singles_matches, ffa_matches >>
               \/ RolledBack
  /\ UNCHANGED << replay_vars, pair_vars, conn_vars >>

add_ffa_match ==
  /\ Stored < MaxStored
  /\ \E c \in FfaCalls :
       LET error == ffa_error(c.results) IN
       /\ call' = c
       /\ IF error # "None" THEN Rejected(error)
          ELSE \/ /\ ffa_matches' = Append(ffa_matches, c.results)
                  /\ returned' = "None"
                  /\ UNCHANGED << singles_matches, doubles_matches >>
               \/ RolledBack
  /\ UNCHANGED << replay_vars, pair_vars, conn_vars >>

NextStore ==
  \/ add_singles_match
  \/ add_doubles_match
  \/ add_ffa_match

SpecStore == InitStore /\ [][NextStore]_vars

\* ------------------------------------------ two calls at the same time
\* Two calls of the replay functions whose loop passes interleave.  Each call
\* has its own frame: the arguments and the locals that lines 141-144,
\* 189-196 and 249-256 create when the call begins.
MaxPairMatches == 2

PairRecords(fn) ==
  IF fn = "singles" THEN
    {[player1 |-> "A", player2 |-> "B", score1 |-> 11, score2 |-> 5],
     [player1 |-> "A", player2 |-> "C", score1 |-> 3, score2 |-> 11],
     [player1 |-> "A", player2 |-> "B", score1 |-> 11]}
  ELSE IF fn = "doubles" THEN
    {[team1 |-> <<"A", "B">>, team2 |-> <<"C", "D">>, score1 |-> 11, score2 |-> 5],
     [team1 |-> <<"A", "C">>, team2 |-> <<"B", "D">>, score1 |-> 3, score2 |-> 11],
     [team1 |-> <<"A", "B">>, team2 |-> <<"B", "C">>, score1 |-> 11, score2 |-> 5]}
  ELSE
    {[results |-> << [player |-> "A", rank |-> 1], [player |-> "B", rank |-> 2],
                     [player |-> "C", rank |-> 3] >>],
     [results |-> << [player |-> "B", rank |-> 1], [player |-> "A", rank |-> 1] >>],
     [results |-> << [player |-> "D", rank |-> 1] >>]}

\* lines 138-144, 186-196, 246-256: the frame of a call that begins
NewFrame(fn, ps) ==
  [computer |-> fn, players |-> ps, matches |-> << >>,
   ratings |-> [p \in ps |-> DEFAULT_RATING], history |-> [p \in ps |-> Baseline],
   match_number |-> 1, raised |-> "none"]

\* one pass of the loop of frame over match, reading and writing the locals
PassOn(frame, locals, match) ==
  IF \/ frame.computer = "singles" /\ singles_key_error(match)
     \/ frame.computer = "doubles" /\ doubles_key_error(match)
     \/ frame.computer = "ffa" /\ ffa_key_error(match)
    THEN [frame EXCEPT !.matches = Append(@, match), !.raised = "KeyError"]
  ELSE
    LET st == IF frame.computer = "singles" THEN singles_match(locals, match)
              ELSE IF frame.computer = "doubles" THEN doubles_match(locals, match)
              ELSE ffa_match(locals, match)
    IN  [frame EXCEPT !.matches = Append(@, match), !.ratings = st.ratings,
                      !.history = st.history, !.match_number = st.match_number]

\* with a bug: match_number is a module-level counter that both calls count up
Locals_shared_counter(c) ==
  [ratings |-> frames[c].ratings, history |-> frames[c].history,
   match_number |-> frames[1].match_number + frames[2].match_number - 1]

\* the locals a call reads and writes are those of its own frame
Locals(c) ==
  [ratings |-> frames[c].ratings, history |-> frames[c].history,
   match_number |-> frames[c].match_number]

InitPair ==
  /\ computer = "none" /\ players = {} /\ matches = << >>
  /\ ratings = << >> /\ history = << >> /\ match_number = 1 /\ raised = "none"
  /\ singles_matches = << >> /\ doubles_matches = << >> /\ ffa_matches = << >>
  /\ call = [fn |-> "none"] /\ returned = "none"
  /\ used = 0 /\ conn = << >>
  /\ frames \in [1..2 -> {NewFrame(fn, ps) : fn \in {"singles", "doubles", "ffa"},
                                             ps \in SeedSets}]

LoopPass(c) ==
  /\ frames[c].raised = "none" /\ Len(frames[c].matches) < MaxPairMatches
  /\ \E match \in PairRecords(frames[c].computer) :
       frames' = [frames EXCEPT ![c] = PassOn(frames[c], Locals(c), match)]
  /\ UNCHANGED << replay_vars, store_vars, conn_vars >>

NextPair ==
  \/ LoopPass(1)
  \/ LoopPass(2)

SpecPair == InitPair /\ [][NextPair]_vars

\* ------------------------------------------------------ get_conn (db.py)
\* src/db.py lines 36-52.  Each user is a thread that runs "with get_conn()"
\* blocks one after the other; the blocks of different users interleave.  Of
\* a block the record conn[u] keeps where the user is (pc) and what happened:
\* how the body and the commit ended, how often rollback and putconn were
\* called, and whether the block ended with an exception.
Users == 1..3

\* line 31: maxconn of the pool
maxconn == 5

NoUse ==
  [pc |-> "out", body |-> "none", commit |-> "none", rolled_back |-> 0,
   put_back |-> 0, outcome |-> "none"]

\* lines 48-52 with a bug: putconn is not in a finally clause, the exception
\* leaves the block right after the rollback
except_exit_leak == "out"

\* lines 48-52: after except Exception ... raise the finally clause runs
except_exit == "finally"

InitConn ==
  /\ computer = "none" /\ players = {} /\ matches = << >>
  /\ ratings = << >> /\ history = << >> /\ match_number = 1 /\ raised = "none"
  /\ singles_matches = << >> /\ doubles_matches = << >> /\ ffa_matches = << >>
  /\ call = [fn |-> "none"] /\ returned = "none"
  /\ frames = << >>
  /\ used = 0 /\ conn = [u \in Users |-> NoUse]

\* lines 43-44: p = get_connection_pool(); conn = p.getconn()
getconn(u) ==
  /\ conn[u].pc = "out" /\ used < maxconn
  /\ used' = used + 1
  /\ conn' = [conn EXCEPT ![u] = [NoUse EXCEPT !.pc = "body"]]
  /\ UNCHANGED << replay_vars, store_vars, pair_vars >>

\* line 46: yield conn, the body of the with block runs and ends normally
\* or with an exception
body(u) ==
  /\ conn[u].pc = "body"
  /\ \E ok \in BOOLEAN :
       conn' = [conn EXCEPT ![u].body = IF ok THEN "ok" ELSE "raised",
                            ![u].pc = IF ok THEN "commit" ELSE "except"]
  /\ UNCHANGED << used, replay_vars, store_vars, pair_vars >>

\* line 47: conn.commit(), which may raise as well
commit(u) ==
  /\ conn[u].pc = "commit"
  /\ \E ok \in BOOLEAN :
       conn' = [conn EXCEPT ![u].commit = IF ok THEN "ok" ELSE "raised",
                            ![u].outcome = IF ok THEN "returned" ELSE @,
                            ![u].pc = IF ok THEN "finally" ELSE "except"]
  /\ UNCHANGED << used, replay_vars, store_vars, pair_vars >>

\* lines 48-50: except Exception: conn.rollback(); raise
rollback(u) ==
  /\ conn[u].pc = "except"
  /\ conn' = [conn EXCEPT ![u].rolled_back = @ + 1,
                          ![u].outcome = "raised",
                          ![u].pc = except_exit]
  /\ UNCHANGED << used, replay_vars, store_vars, pair_vars >>

\* lines 51-52: finally: p.putconn(conn)
putconn(u) ==
  /\ conn[u].pc = "finally"
  /\ used' = used - 1
  /\ conn' = [conn EXCEPT ![u].put_back = @ + 1, ![u].pc = "out"]
  /\ UNCHANGED << replay_vars, store_vars, pair_vars >>

NextConn ==
  \E u \in Users :
    \/ getconn(u)
    \/ body(u)
    \/ commit(u)
    \/ rollback(u)
    \/ putconn(u)

SpecConn == InitConn /\ [][NextConn]_vars

\* ================================================================== claims
\* true of a step that read one more record of the list
Read == Len(matches') = Len(matches) + 1

\* true of such a step if the pass over the record ran to its end
Stepped == Read /\ raised' = "none"

\* the record that step has read
Current == matches'[Len(matches')]

\* the players a record names
Participants(m) ==
  IF computer = "singles" THEN {m.player1, m.player2}
  ELSE IF computer = "doubles" THEN ToSet(m.team1) \cup ToSet(m.team2)
  ELSE {ffa_results(m)[i].player : i \in 1..Len(ffa_results(m))}

\* the records the specification calls malformed: a required key is missing
LacksKey(m) ==
  IF computer = "singles"
    THEN ~ ({"player1", "player2", "score1", "score2"} \subseteq DOMAIN m)
  ELSE IF computer = "doubles"
    THEN ~ ({"team1", "team2", "score1", "score2"} \subseteq DOMAIN m)
  ELSE \/ "results" \notin DOMAIN m
       \/ \E i \in 1..Len(m.results) : ~ ({"player", "rank"} \subseteq DOMAIN m.results[i])

\* true when no record read so far lacks a key
WellFormedList == \A i \in 1..Len(matches) : ~ LacksKey(matches[i])

\* the records on which the pass raises
Broken(m) ==
  IF computer = "singles" THEN singles_key_error(m)
  ELSE IF computer = "doubles" THEN doubles_key_error(m)
  ELSE ffa_key_error(m)

\* the records the specification calls accepted: all but the defined skips
Accepted(m) ==
  IF Broken(m) THEN FALSE
  ELSE IF computer = "singles" THEN m.score1 # m.score2
  ELSE IF computer = "doubles"
    THEN m.score1 # m.score2 /\ ToSet(m.team1) \cap ToSet(m.team2) = {}
  ELSE Len(ffa_results(m)) >= 2

\* the sequence number the i-th record of the list gets if it is accepted
SeqNo(i) == Cardinality({j \in 1..i : Accepted(matches[j])})

\* C1: a singles match with score1 = score2, at any position of the list,
\* changes no player's rating, appends nothing to any history and leaves
\* match_number as it is; all it may do is register a player it names who
\* was not known yet, at 1000 with the baseline entry alone.
C1_SinglesTieSkipped ==
  [][(computer = "singles" /\ Stepped /\ Current.score1 = Current.score2) =>
       /\ match_number' = match_number
       /\ \A p \in DOMAIN ratings :
            /\ p \in DOMAIN ratings' /\ ratings'[p] = ratings[p]
            /\ p \in DOMAIN history' /\ history'[p] = history[p]
       /\ \A p \in (DOMAIN ratings') \ (DOMAIN ratings) :
            ratings'[p] = DEFAULT_RATING /\ history'[p] = Baseline
       /\ DOMAIN history' = DOMAIN ratings']_vars

\* a tie read between two accepted singles matches
C1_Witness ==
  /\ WellFormedList
  /\ computer = "singles" /\ Len(matches) = 3
  /\ matches[1].score1 # matches[1].score2
  /\ matches[2].score1 = matches[2].score2
  /\ matches[3].score1 # matches[3].score2
  /\ match_number = 3

\* C2: a team match whose teams share a player, or whose scores are equal,
\* is skipped with no state change at all: ratings, history and the counter
\* stay as they were.
C2_DoublesRejectedNoChange ==
  [][(computer = "doubles" /\ Stepped /\
        (Current.score1 = Current.score2 \/
         ToSet(Current.team1) \cap ToSet(Current.team2) # {})) =>
       UNCHANGED << ratings, history, match_number >>]_vars

\* teams sharing a player, with unequal scores, read after an accepted match
C2_Witness ==
  /\ WellFormedList
  /\ computer = "doubles" /\ Len(matches) = 2
  /\ Accepted(matches[1])
  /\ matches[2].score1 # matches[2].score2
  /\ ToSet(matches[2].team1) \cap ToSet(matches[2].team2) # {}
  /\ match_number = 2

\* C3: in every history the sequence numbers are strictly increasing.
C3_HistoryStrictlyIncreasing ==
  \A p \in DOMAIN history :
    \A i \in 1..(Len(history[p]) - 1) : history[p][i][1] < history[p][i + 1][1]

\* C4: match_number is one counter per replay: it starts at 1 and is advanced
\* once by every accepted record and by no skipped one; the k-th accepted
\* record writes k into the history of each player it names, and the sequence
\* numbers above 0 found in the histories are exactly 1..A after A accepted
\* records.
C4_SharedCounter ==
  LET A == SeqNo(Len(matches)) IN
  /\ match_number = A + 1
  /\ \A i \in 1..Len(matches) :
       Accepted(matches[i]) =>
         \A p \in Participants(matches[i]) :
           /\ p \in DOMAIN history
           /\ \E e \in 1..Len(history[p]) : history[p][e][1] = SeqNo(i)
  /\ UNION {{history[p][e][1] : e \in 2..Len(history[p])} : p \in DOMAIN history}
       = 1..A

\* an accepted, a skipped and again an accepted free-for-all match
C4_Witness ==
  /\ WellFormedList
  /\ computer = "ffa" /\ Len(matches) = 3
  /\ Accepted(matches[1]) /\ ~Accepted(matches[2]) /\ Accepted(matches[3])
  /\ match_number = 3

\* C5: a history holds the baseline and one entry for each accepted record
\* that names the player.
C5_OneEntryPerAcceptedMatch ==
  \A p \in DOMAIN history :
    Len(history[p]) =
      1 + Cardinality({i \in 1..Len(matches) :
                         Accepted(matches[i]) /\ p \in Participants(matches[i])})

\* C6 as stated: whoever is named by a record of the list, accepted or
\* skipped, is in ratings and in history, with (0, 1000) as entry 0.
C6_LateRegistrationAnyRecord ==
  raised = "none" =>
  \A i \in 1..Len(matches) :
    \A p \in Participants(matches[i]) :
      /\ p \in DOMAIN ratings
      /\ p \in DOMAIN history
      /\ Len(history[p]) >= 1
      /\ history[p][1] = <<0, DEFAULT_RATING>>

\* C6 amended: that holds of every record in the singles computer, and of
\* the accepted records in the team and free-for-all computers.
C6_LateRegistration ==
  raised = "none" =>
  \A i \in 1..Len(matches) :
    (computer = "singles" \/ Accepted(matches[i])) =>
      \A p \in Participants(matches[i]) :
        /\ p \in DOMAIN ratings
        /\ p \in DOMAIN history
        /\ Len(history[p]) >= 1
        /\ history[p][1] = <<0, DEFAULT_RATING>>

\* a player outside the seed set whom only a skipped singles record names
C6_Witness ==
  /\ WellFormedList
  /\ computer = "singles" /\ players = {} /\ Len(matches) = 1
  /\ matches[1].score1 = matches[1].score2
  /\ matches[1].player1 \in DOMAIN ratings

\* the scenario of C7
Scenario ==
  << [player1 |-> "A", player2 |-> "B", score1 |-> 11, score2 |-> 5],
     [player1 |-> "A", player2 |-> "C", score1 |-> 3, score2 |-> 11],
     [player1 |-> "B", player2 |-> "C", score1 |-> 11, score2 |-> 9] >>

AfterScenario ==
  computer = "singles" /\ players = {"A", "B", "C"} /\ matches = Scenario

\* the largest sequence number in a history
LastSeqNo == match_number - 1

\* C7 as stated: after the scenario C's history has three entries, B's has
\* two, and the shared counter has reached 3.
C7_ScenarioAsStated ==
  AfterScenario =>
    /\ Len(history["C"]) = 3
    /\ Len(history["B"]) = 2
    /\ LastSeqNo = 3

\* C7 amended: after the scenario each of A, B and C has three entries (B
\* played the first and the third match), the last sequence number given out
\* is 3 (match_number is left at 4), and the histories are these.
C7_Scenario ==
  AfterScenario =>
    /\ Len(history["C"]) = 3
    /\ Len(history["B"]) = 3
    /\ LastSeqNo = 3
    /\ match_number = 4
    /\ history["A"] = << <<0, 100000>>, <<1, 101600>>, <<2, 99926>> >>
    /\ history["B"] = << <<0, 100000>>, <<1, 98400>>, <<3, 100150>> >>
    /\ history["C"] = << <<0, 100000>>, <<2, 101674>>, <<3, 99924>> >>
    /\ ratings = [p \in {"A", "B", "C"} |-> history[p][3][2]]

C7_Witness == AfterScenario /\ match_number = 4

\* the orders in which n results can be listed
Perms(n) == {f \in [1..n -> 1..n] : \A i, j \in 1..n : f[i] = f[j] => i = j}

\* C8: a free-for-all match gives every player it names the same new rating,
\* hence the same change, and the same history entry whatever the order of
\* its result list: every other listing of the results, computed from the
\* ratings at the start of the match, gives what the listing read gave.
C8_FfaOrderIndependent ==
  [][(computer = "ffa" /\ Stepped) =>
       \A f \in Perms(Len(ffa_results(Current))) \ {[i \in 1..Len(ffa_results(Current)) |-> i]} :
         ffa_match(State,
                   [results |-> [i \in 1..Len(ffa_results(Current)) |->
                                   ffa_results(Current)[f[i]]]])
           = [ratings |-> ratings', history |-> history',
              match_number |-> match_number']]_vars

\* three players with three different ratings, then ranked in a match
C8_Witness ==
  /\ WellFormedList
  /\ computer = "ffa" /\ Len(matches) = 2
  /\ Len(matches[1].results) = 3 /\ Len(matches[2].results) = 3
  /\ \A i, j \in 1..3 : i # j => matches[1].results[i].rank # matches[1].results[j].rank
  /\ match_number = 3
  /\ \A p \in {"A", "B", "C"} : history[p][3][2] # history[p][2][2]

\* the singles record of a 2-player result list whose first entry has rank
\* rank_1 and whose second has rank_2: the better rank has the higher score
AsSingles(results) ==
  [player1 |-> results[1].player, player2 |-> results[2].player,
   score1 |-> IF results[1].rank < results[2].rank THEN 11 ELSE 5,
   score2 |-> IF results[1].rank < results[2].rank THEN 5 ELSE 11]

\* C9: a free-for-all match of two different players with ranks 1 and 2
\* leaves the ratings, the history entries and the counter that the singles
\* computer leaves for the same two players when the rank-1 player has the
\* higher score; from 1000 each the winner gets 1016.00 and the loser 984.00.
C9_TwoPlayerFfaIsSingles ==
  [][(/\ computer = "ffa" /\ Stepped
      /\ Len(ffa_results(Current)) = 2
      /\ Current.results[1].player # Current.results[2].player
      /\ Current.results[1].rank # Current.results[2].rank) =>
       LET first  == Current.results[1]
           second == Current.results[2]
           winner == IF first.rank < second.rank THEN first.player ELSE second.player
           loser  == IF first.rank < second.rank THEN second.player ELSE first.player
           before == [p \in {winner, loser} |->
                        IF p \in DOMAIN ratings THEN ratings[p] ELSE DEFAULT_RATING]
           st     == singles_match(State, AsSingles(Current.results))
       IN  /\ ratings' = st.ratings
           /\ history' = st.history
           /\ match_number' = st.match_number
           /\ (before[winner] = DEFAULT_RATING /\ before[loser] = DEFAULT_RATING) =>
                /\ ratings'[winner] = 101600
                /\ ratings'[loser] = 98400]_vars

\* A beats B from 1000 each, then B beats A from 984 against 1016
C9_Witness ==
  /\ WellFormedList
  /\ computer = "ffa" /\ Len(matches) = 2
  /\ \A i \in 1..2 :
       /\ Len(matches[i].results) = 2
       /\ matches[i].results[1].player = "A" /\ matches[i].results[2].player = "B"
  /\ matches[1].results[1].rank < matches[1].results[2].rank
  /\ matches[2].results[1].rank > matches[2].results[2].rank
  /\ history["A"][2] = <<1, 101600>> /\ history["B"][2] = <<1, 98400>>
  /\ Len(history["A"]) = 3

\* C10: an accepted singles match between two different players changes the
\* two ratings by amounts whose sum is at most one hundredth in size.
C10_SinglesZeroSum ==
  [][(/\ computer = "singles" /\ Stepped
      /\ Current.score1 # Current.score2
      /\ Current.player1 # Current.player2) =>
       LET a  == Current.player1
           b  == Current.player2
           ra == IF a \in DOMAIN ratings THEN ratings[a] ELSE DEFAULT_RATING
           rb == IF b \in DOMAIN ratings THEN ratings[b] ELSE DEFAULT_RATING
           total == (ratings'[a] - ra) + (ratings'[b] - rb)
       IN  total \in -1..1]_vars

\* a win against a player who had a different rating
C10_Witness ==
  /\ WellFormedList
  /\ computer = "singles" /\ Len(matches) = 2
  /\ matches[1] = Scenario[1] /\ matches[2] = Scenario[2]
  /\ ratings["A"] + ratings["C"] = 101600 + 100000

\* the rating a player has when a pass begins: the stored one, or the default
\* for a player the pass is the first to name
Before(p) == IF p \in DOMAIN ratings THEN ratings[p] ELSE DEFAULT_RATING

\* C11: in an accepted team match the members of one team all move by the
\* same amount, whatever their ratings were, so the difference between two
\* teammates' ratings is the same after the match as before it.
C11_TeammatesMoveTogether ==
  [][(computer = "doubles" /\ Stepped /\ Accepted(Current)) =>
       \A team \in {Current.team1, Current.team2} :
         \A p, q \in ToSet(team) :
           /\ ratings'[p] - Before(p) = ratings'[q] - Before(q)
           /\ ratings'[p] - ratings'[q] = Before(p) - Before(q)]_vars

\* an accepted match of A and B as one team after a match in which they
\* played on opposite sides, so that their ratings differ
C11_Witness ==
  /\ WellFormedList
  /\ computer = "doubles" /\ Len(matches) = 2
  /\ matches[1].team1 = << "A", "C" >> /\ matches[1].team2 = << "B", "D" >>
  /\ matches[2].team1 = << "A", "B" >> /\ matches[2].team2 = << "C", "D" >>
  /\ match_number = 3
  /\ history["A"][2][2] # history["B"][2][2]
  /\ ratings["A"] - ratings["B"] = history["A"][2][2] - history["B"][2][2]

\* the length of a player's history when a pass begins
HistLen(p) == IF p \in DOMAIN history THEN Len(history[p]) ELSE 1

\* how many of the first k places of a team list name the player at place k
Occ(team, k) == Cardinality({j \in 1..k : team[j] = team[k]})

\* C12: in an accepted team match each team's composite rating is the mean
\* of its members' ratings before the match, the pairwise update is applied
\* to the two composites with result 1 for team 1 exactly when score1 >
\* score2 and 0 otherwise, and each member's new rating is round(old rating +
\* (new composite - old composite), 2).  Stated per place of the team list:
\* the entry appended for a place holds the rounded sum of the rating its
\* player had just before and the team's delta, under the match's number,
\* and the last of them is the player's rating.
C12_TeamUpdateRule ==
  [][(computer = "doubles" /\ Stepped /\ Accepted(Current)) =>
       LET t1  == Current.team1
           t2  == Current.team2
           c1  == (Half * (Before(t1[1]) + Before(t1[2]))) \div 2
           c2  == (Half * (Before(t2[1]) + Before(t2[2]))) \div 2
           new == update_elo(c1, c2, IF Current.score1 > Current.score2 THEN ONE ELSE 0)
       IN  /\ match_number' = match_number + 1
           /\ \A side \in 1..2 :
                LET team == IF side = 1 THEN t1 ELSE t2 IN
                \A k \in 1..2 :
                  LET p   == team[k]
                      pos == HistLen(p) + Occ(team, k)
                      old == IF Occ(team, k) = 1 THEN Before(p)
                             ELSE history'[p][pos - 1][2]
                      r   == round2(old, new[side].inc, 1)
                  IN  /\ Len(history'[p]) >= pos
                      /\ history'[p][pos] = << match_number, r >>
                      /\ (\A j \in 1..2 : team[j] = p => j <= k) => ratings'[p] = r]_vars

\* team 2 wins an accepted match in which both composites are means of two
\* different ratings
C12_Witness ==
  /\ WellFormedList
  /\ computer = "doubles" /\ Len(matches) = 2
  /\ matches[1].team1 = << "A", "B" >> /\ matches[1].team2 = << "C", "D" >>
  /\ matches[1].score1 > matches[1].score2
  /\ matches[2].team1 = << "A", "C" >> /\ matches[2].team2 = << "B", "D" >>
  /\ matches[2].score1 < matches[2].score2
  /\ match_number = 3
  /\ history["A"][2][2] # history["C"][2][2]
  /\ ratings["A"] < history["A"][2][2] /\ ratings["B"] > history["B"][2][2]

\* the history a player has when a pass begins
HistBefore(p) == IF p \in DOMAIN history THEN history[p] ELSE Baseline

\* what place i of a free-for-all result list scores against place j
Outcome(results, i, j) ==
  IF results[i].rank < results[j].rank THEN ONE
  ELSE IF results[i].rank = results[j].rank THEN ONE \div 2
  ELSE 0

RECURSIVE FfaGain(_, _, _)
\* the sum over the places j /= i of (outcome - expected score) of place i
\* against place j, on the ratings before the match; j runs down from n
FfaGain(results, i, j) ==
  IF j = 0 THEN 0
  ELSE IF j = i THEN FfaGain(results, i, j - 1)
  ELSE Outcome(results, i, j)
         - expected_score(Half * Before(results[i].player), Half * Before(results[j].player))
         + FfaGain(results, i, j - 1)

\* C13: in a free-for-all each pair's outcome comes from the two ranks alone:
\* the lower rank wins, equal ranks are a draw scored 0.5 each, and a player's
\* new rating is the old one plus the weighted sum of K * (outcome - expected)
\* over the pairs, rounded.  Two players of equal rating who tie a 2-player
\* match keep their ratings while the match is still accepted: each gets a
\* history entry with the unchanged rating and the counter advances.
C13_FfaRanksDecide ==
  [][(/\ computer = "ffa" /\ Stepped /\ Accepted(Current)
      /\ \A i, j \in 1..Len(Current.results) :
           Current.results[i].player = Current.results[j].player => i = j) =>
       LET results == Current.results
           n == Len(results)
       IN  /\ match_number' = match_number + 1
           /\ \A i \in 1..n :
                LET p == results[i].player
                    r == round2(Before(p), FfaGain(results, i, n), n - 1)
                IN  /\ ratings'[p] = r
                    /\ history'[p] = Append(HistBefore(p), << match_number, r >>)
           /\ (/\ n = 2 /\ results[1].rank = results[2].rank
               /\ Before(results[1].player) = Before(results[2].player)) =>
                \A i \in 1..2 :
                  /\ ratings'[results[i].player] = Before(results[i].player)
                  /\ Len(history'[results[i].player]) = HistLen(results[i].player) + 1]_vars

\* A and B, both at 1000, tie a 2-player free-for-all
C13_Witness ==
  /\ WellFormedList
  /\ computer = "ffa" /\ Len(matches) = 1
  /\ Len(matches[1].results) = 2
  /\ matches[1].results[1].player = "A" /\ matches[1].results[2].player = "B"
  /\ matches[1].results[1].rank = matches[1].results[2].rank
  /\ match_number = 2
  /\ history["A"] = << << 0, DEFAULT_RATING >>, << 1, DEFAULT_RATING >> >>
  /\ history["B"] = << << 0, DEFAULT_RATING >>, << 1, DEFAULT_RATING >> >>

\* C14: a free-for-all match with fewer than 2 results is skipped with no
\* state change: ratings, history and the counter stay as they were, and the
\* players it names are not registered.
C14_FfaTooFewSkipped ==
  [][(computer = "ffa" /\ Stepped /\ Len(ffa_results(Current)) < 2) =>
       UNCHANGED << ratings, history, match_number >>]_vars

\* a match with the one result of D, read between two accepted matches by a
\* call that was not seeded with D
C14_Witness ==
  /\ WellFormedList
  /\ computer = "ffa" /\ Len(matches) = 3 /\ raised = "none"
  /\ Len(ffa_results(matches[1])) = 3
  /\ ffa_results(matches[2]) = << [player |-> "D", rank |-> 1] >>
  /\ Len(ffa_results(matches[3])) = 2
  /\ match_number = 3
  /\ "D" \notin DOMAIN ratings

\* C15: a record that lacks a required key (player or team, score, the
\* results list, a result's player or rank) makes the call raise, and a pass
\* that ends without an error and without counting the match has read one of
\* the three defined skips: equal scores, teams sharing a player, fewer than
\* 2 results.
C15_MalformedRaises ==
  [][Read =>
       /\ LacksKey(Current) => raised' # "none"
       /\ (raised' = "none" /\ match_number' = match_number) =>
            /\ ~ LacksKey(Current)
            /\ IF computer = "singles" THEN Current.score1 = Current.score2
               ELSE IF computer = "doubles"
                 THEN \/ Current.score1 = Current.score2
                      \/ ToSet(Current.team1) \cap ToSet(Current.team2) # {}
               ELSE Len(Current.results) < 2]_vars

\* the records a call can be given
Records ==
  IF computer = "singles" THEN SinglesRecords \cup SinglesBroken
  ELSE IF computer = "doubles" THEN DoublesRecords \cup DoublesBroken
  ELSE FfaRecords \cup FfaBroken

\* C16: the third output is the input match list unchanged: every step of a
\* call takes the next record of the list as it was given and leaves the
\* records before it in place and unaltered, skipped ones included.
C16_MatchesPassedThrough ==
  [][/\ Len(matches') = Len(matches) + 1
     /\ \A i \in 1..Len(matches) : matches'[i] = matches[i]
     /\ matches'[Len(matches')] \in Records]_vars

\* a skipped team record is still in the list after a later accepted match
C16_Witness ==
  /\ WellFormedList
  /\ computer = "doubles" /\ Len(matches) = 2 /\ raised = "none"
  /\ matches[1] = [team1 |-> <<"A", "B">>, team2 |-> <<"C", "D">>, score1 |-> 5, score2 |-> 5]
  /\ matches[2] = [team1 |-> <<"A", "B">>, team2 |-> <<"C", "D">>, score1 |-> 11, score2 |-> 5]
  /\ match_number = 2

\* C17: for every seed set and the empty match list a call returns the
\* rating 1000 and the history [(0, 1000)] for each seeded player, and no
\* other player.
C17_EmptyListBaseline ==
  Len(matches) = 0 =>
    /\ raised = "none"
    /\ DOMAIN ratings = players /\ DOMAIN history = players
    /\ \A p \in players :
         /\ ratings[p] = 100000
         /\ history[p] = << << 0, 100000 >> >>

\* the free-for-all function called with three seeded players and no match
C17_Witness ==
  /\ computer = "ffa" /\ matches = << >> /\ players = {"A", "B", "C"}
  /\ DOMAIN ratings = {"A", "B", "C"}

\* what a match entry helper returns when it refuses a match
ErrorStrings ==
  {"Players must be different.", "No ties allowed.", "Teams cannot share players.",
   "Need at least 2 players."}

\* C19: add_singles_match and add_doubles_match called with score1 = score2,
\* add_singles_match called with player1 = player2 and add_doubles_match
\* called with teams that share a player return an error string and insert
\* no match: the three tables are as before the call.
C19_DrawsRejected ==
  [][(\/ /\ call'.fn = "add_singles_match"
         /\ (call'.score1 = call'.score2 \/ call'.player1_id = call'.player2_id)
      \/ /\ call'.fn = "add_doubles_match"
         /\ \/ call'.score1 = call'.score2
            \/ {call'.t1p1_id, call'.t1p2_id} \cap {call'.t2p1_id, call'.t2p2_id} # {}) =>
       /\ returned' \in ErrorStrings
       /\ UNCHANGED << singles_matches, doubles_matches, ffa_matches >>]_vars

\* a tied team match is refused when one match is already stored
C19_Witness ==
  /\ call.fn = "add_doubles_match" /\ call.score1 = call.score2
  /\ {call.t1p1_id, call.t1p2_id} \cap {call.t2p1_id, call.t2p2_id} = {}
  /\ returned = "No ties allowed."
  /\ Len(singles_matches) = 1 /\ Len(doubles_matches) = 0

\* C20: a match that add_singles_match, add_doubles_match or add_ffa_match
\* has stored names no player more than once: not on both sides, not twice
\* in one team, not twice in a free-for-all result list.
C20_StoredPlayersDistinct ==
  /\ \A i \in 1..Len(singles_matches) :
       singles_matches[i].player1_id # singles_matches[i].player2_id
  /\ \A i \in 1..Len(doubles_matches) :
       Cardinality({doubles_matches[i].team1_player1_id, doubles_matches[i].team1_player2_id,
                    doubles_matches[i].team2_player1_id, doubles_matches[i].team2_player2_id}) = 4
  /\ \A i \in 1..Len(ffa_matches) :
       \A j, k \in 1..Len(ffa_matches[i]) :
         ffa_matches[i][j].player_id = ffa_matches[i][k].player_id => j = k

\* C21: with the weight 1/(N-1) the total rating change of one participant
\* of a free-for-all match between N >= 2 different players is at most K = 32
\* in size, the bound of one singles match.
C21_FfaSwingBounded ==
  [][(/\ computer = "ffa" /\ Stepped /\ Accepted(Current)
      /\ \A i, j \in 1..Len(Current.results) :
           Current.results[i].player = Current.results[j].player => i = j) =>
       \A i \in 1..Len(Current.results) :
         LET p == Current.results[i].player
             change == ratings'[p] - Before(p)
         IN  /\ change <= K * Cents
             /\ change >= - (K * Cents)]_vars

\* A, rated below B and C after a lost match, wins a 3-player match against
\* them and gains more than one singles win between equals gives (16)
C21_Witness ==
  /\ WellFormedList
  /\ computer = "ffa" /\ Len(matches) = 2
  /\ Len(matches[1].results) = 3 /\ Len(matches[2].results) = 3
  /\ matches[1].results[1] = [player |-> "A", rank |-> 3]
  /\ matches[2].results[1] = [player |-> "A", rank |-> 1]
  /\ match_number = 3
  /\ ratings["A"] - history["A"][2][2] > 16 * Cents

\* r_new is a hundredth nearest to r_old + K * inc / (ONE * w)
Nearest(r_old, r_new, inc, w) ==
  LET off == KDen * w * (r_new - r_old) - inc
  IN  2 * off <= KDen * w /\ 2 * off >= - (KDen * w)

\* true of a record that names no player twice
NamesOnce(m) ==
  IF computer = "singles" THEN m.player1 # m.player2
  ELSE IF computer = "doubles"
    THEN Cardinality(ToSet(m.team1) \cup ToSet(m.team2)) = Len(m.team1) + Len(m.team2)
  ELSE \A i, j \in 1..Len(m.results) : m.results[i].player = m.results[j].player => i = j

\* the exact change (scale ONE) the match gives player p, computed from the
\* stored ratings before the match, and the divisor that goes with it
ExactChange(m, p) ==
  IF computer = "singles" THEN
    LET w == IF m.score1 > m.score2 THEN m.player1 ELSE m.player2
        l == IF m.score1 > m.score2 THEN m.player2 ELSE m.player1
        e == expected_score(Half * Before(w), Half * Before(l))
    IN  IF p = w THEN ONE - e ELSE e - ONE
  ELSE IF computer = "doubles" THEN
    LET c1 == (Half * (Before(m.team1[1]) + Before(m.team1[2]))) \div 2
        c2 == (Half * (Before(m.team2[1]) + Before(m.team2[2]))) \div 2
        e  == expected_score(c1, c2)
        s  == IF m.score1 > m.score2 THEN ONE ELSE 0
    IN  IF p \in ToSet(m.team1) THEN s - e ELSE e - s
  ELSE FfaGain(m.results, CHOOSE i \in 1..Len(m.results) : m.results[i].player = p,
               Len(m.results))

\* C22: rounding is part of the state.  After an accepted match the stored
\* rating of each participant is the hundredth nearest to the old stored
\* rating plus the exact change, where the expected scores of the change are
\* taken from the stored (rounded) ratings; the history entry of the match
\* holds that same stored value.  (Every rating of the model is a whole
\* number of hundredths.)
C22_RoundedState ==
  [][(Stepped /\ Accepted(Current)) =>
       /\ \A p \in Participants(Current) :
            history'[p][Len(history'[p])] = << match_number, ratings'[p] >>
       /\ NamesOnce(Current) =>
            \A p \in Participants(Current) :
              Nearest(Before(p), ratings'[p], ExactChange(Current, p),
                      IF computer = "ffa" THEN Len(Current.results) - 1 ELSE 1)]_vars

\* a third singles match whose two players both enter it with ratings that
\* are not whole points
C22_Witness ==
  /\ WellFormedList
  /\ computer = "singles" /\ Len(matches) = 3 /\ match_number = 4
  /\ matches = Scenario
  /\ history["B"][2][2] % Cents = 0 /\ history["C"][2][2] % Cents # 0
  /\ ratings["B"] % Cents # 0 /\ ratings["C"] % Cents # 0

\* C23: history is append-only during a replay: a pass removes, reorders or
\* rewrites no entry, so each player's history before the pass is a prefix of
\* the history after it, and entry 0 of every history is (0, 1000).
C23_HistoryAppendOnly ==
  [][/\ \A p \in DOMAIN history :
          /\ p \in DOMAIN history'
          /\ Len(history'[p]) >= Len(history[p])
          /\ SubSeq(history'[p], 1, Len(history[p])) = history[p]
     /\ \A p \in DOMAIN history' :
          /\ Len(history'[p]) >= 1
          /\ history'[p][1] = << 0, DEFAULT_RATING >>]_vars

\* A has played in two accepted team matches and in a third
C23_Witness ==
  /\ WellFormedList
  /\ computer = "doubles" /\ Len(matches) = 3 /\ match_number = 4
  /\ Len(history["A"]) = 4
  /\ history["A"][2][1] = 1 /\ history["A"][3][1] = 2 /\ history["A"][4][1] = 3

RECURSIVE RunAlone(_, _)
\* what a call returns for the list ms when it runs from frame f on its own
RunAlone(f, ms) ==
  IF ms = << >> THEN f
  ELSE RunAlone(PassOn(f, [ratings |-> f.ratings, history |-> f.history,
                           match_number |-> f.match_number], Head(ms)),
                Tail(ms))

\* C24: two calls of the replay functions that run at the same time on their
\* own inputs, their loop passes interleaved in any order, each hold what the
\* call gives when it runs alone on the records it has read: no rating,
\* history or counter is shared between the calls.
C24_CallsIsolated ==
  \A c \in 1..2 :
    frames[c] = RunAlone(NewFrame(frames[c].computer, frames[c].players),
                         frames[c].matches)

\* two singles calls with different lists, each after two passes, of which
\* the second call skipped none and the first call read other records
C24_Witness ==
  /\ frames[1].computer = "singles" /\ frames[2].computer = "singles"
  /\ Len(frames[1].matches) = 2 /\ Len(frames[2].matches) = 2
  /\ frames[1].matches # frames[2].matches
  /\ frames[1].match_number = 3 /\ frames[2].match_number = 3
  /\ frames[1].ratings # frames[2].ratings

C26_LastEntryIsRating ==
  /\ DOMAIN ratings = DOMAIN history
  /\ \A p \in DOMAIN history :
       /\ Len(history[p]) >= 1
       /\ history[p][Len(history[p])][2] = ratings[p]
       /\ Len(history[p]) = 1 => ratings[p] = DEFAULT_RATING

\* a free-for-all call after two accepted matches of A that left C, seeded,
\* untouched
C26_Witness ==
  /\ WellFormedList
  /\ computer = "ffa" /\ players = {"A", "B", "C"} /\ match_number = 3
  /\ DOMAIN ratings = {"A", "B", "C"}
  /\ Len(history["C"]) = 1 /\ Len(history["A"]) = 3
  /\ ratings["A"] # DEFAULT_RATING

\* true when the record at place i of the list names player p
Names(i, p) == ~ LacksKey(matches[i]) /\ p \in Participants(matches[i])

\* C27: the pass over an accepted match changes the rating and history of the
\* players that match names and of nobody else: every other player known
\* before the pass keeps both, and only players the match names are added.
\* Hence a seeded player no record of the list names has rating 1000 and
\* history [(0, 1000)] at every point of the replay.
C27_OthersUntouched ==
  /\ [][Stepped /\ Accepted(Current) =>
          /\ \A p \in DOMAIN ratings \ Participants(Current) :
               /\ p \in DOMAIN ratings' /\ p \in DOMAIN history'
               /\ ratings'[p] = ratings[p]
               /\ history'[p] = history[p]
          /\ (DOMAIN ratings' \ DOMAIN ratings) \subseteq Participants(Current)
          /\ (DOMAIN history' \ DOMAIN history) \subseteq Participants(Current)]_vars
  /\ [](\A p \in players :
          (\A i \in 1..Len(matches) : ~ Names(i, p)) =>
             /\ p \in DOMAIN ratings /\ ratings[p] = DEFAULT_RATING
             /\ p \in DOMAIN history /\ history[p] = Baseline)

\* three accepted team matches that brought in the late player D, none of
\* them naming the seeded player C, whose rating and history are the baseline
C27_Witness ==
  /\ WellFormedList
  /\ computer = "doubles" /\ "C" \in players
  /\ Len(matches) = 3 /\ match_number = 4
  /\ \A i \in 1..3 : ~ Names(i, "C")
  /\ "D" \in DOMAIN ratings /\ ratings["D"] # DEFAULT_RATING
  /\ ratings["C"] = DEFAULT_RATING /\ history["C"] = Baseline

\* src/data_utils.py lines 84-121: the rows of singles_matches in the order of
\* their ids, the columns player1_id and player2_id renamed
load_singles_matches ==
  [i \in 1..Len(singles_matches) |->
     [player1 |-> singles_matches[i].player1_id,
      player2 |-> singles_matches[i].player2_id,
      score1 |-> singles_matches[i].score1,
      score2 |-> singles_matches[i].score2]]

\* src/data_utils.py lines 124-167: the rows of doubles_matches in the order
\* of their ids, the four player columns gathered into team1 and team2
load_doubles_matches ==
  [i \in 1..Len(doubles_matches) |->
     [team1 |-> << doubles_matches[i].team1_player1_id,
                   doubles_matches[i].team1_player2_id >>,
      team2 |-> << doubles_matches[i].team2_player1_id,
                   doubles_matches[i].team2_player2_id >>,
      score1 |-> doubles_matches[i].score1,
      score2 |-> doubles_matches[i].score2]]

\* ORDER BY fr.match_id, fr.rank: the orders in which the rows of one match
\* can come back, rows of equal rank in any order
RankOrders(rows) ==
  {f \in [1..Len(rows) -> 1..Len(rows)] :
     /\ \A i, j \in 1..Len(rows) : f[i] = f[j] => i = j
     /\ \A i, j \in 1..Len(rows) : i < j => rows[f[i]].rank <= rows[f[j]].rank}

\* src/data_utils.py lines 170-220: the lists load_ffa_matches can return,
\* one per order of the result rows; player_id is renamed player
load_ffa_matches ==
  {[i \in 1..Len(ffa_matches) |->
      [results |-> [k \in 1..Len(ffa_matches[i]) |->
                      [player |-> ffa_matches[i][f[i][k]].player_id,
                       score |-> ffa_matches[i][f[i][k]].score,
                       rank |-> ffa_matches[i][f[i][k]].rank]]]] :
     f \in {g \in [1..Len(ffa_matches) -> UNION {RankOrders(ffa_matches[i]) :
                                                  i \in 1..Len(ffa_matches)}] :
             \A i \in 1..Len(ffa_matches) : g[i] \in RankOrders(ffa_matches[i])}}

\* src/data_utils.py lines 268-276: compute_fn(matches, player_ids) for one
\* match type, player_ids being the ids of all the players
compute_ratings_for_sport(match_type, loaded) ==
  RunAlone(NewFrame(match_type, Players), loaded)

\* the accepted matches of a replay: the highest sequence number given
AcceptedCount(frame) == frame.match_number - 1

\* C28: recording and replay agree: whatever calls of add_singles_match,
\* add_doubles_match and add_ffa_match were made, stored or rejected, the
\* replay of each table raises nothing and accepts every stored match, so the
\* highest sequence number is the number of rows and no skip branch is taken.
C28_StoredAreAccepted ==
  /\ LET r == compute_ratings_for_sport("singles", load_singles_matches)
     IN  r.raised = "none" /\ AcceptedCount(r) = Len(singles_matches)
  /\ LET r == compute_ratings_for_sport("doubles", load_doubles_matches)
     IN  r.raised = "none" /\ AcceptedCount(r) = Len(doubles_matches)
  /\ \A loaded \in load_ffa_matches :
       LET r == compute_ratings_for_sport("ffa", loaded)
       IN  r.raised = "none" /\ AcceptedCount(r) = Len(ffa_matches)

\* a free-for-all match of tied ranks is stored, which can be loaded in two
\* orders, and a drawn singles match has then been rejected at the boundary
C28_Witness ==
  /\ call.fn = "add_singles_match" /\ returned = "No ties allowed."
  /\ Len(singles_matches) = 0
  /\ Len(ffa_matches) = 1 /\ Cardinality(load_ffa_matches) = 2
  /\ AcceptedCount(compute_ratings_for_sport("singles", load_singles_matches)) = 0
  /\ \A loaded \in load_ffa_matches :
       AcceptedCount(compute_ratings_for_sport("ffa", loaded)) = 1

\* the record with the two sides and their scores exchanged
Swapped(m) ==
  IF computer = "singles"
    THEN [m EXCEPT !.player1 = m.player2, !.player2 = m.player1,
                   !.score1 = m.score2, !.score2 = m.score1]
    ELSE [m EXCEPT !.team1 = m.team2, !.team2 = m.team1,
                   !.score1 = m.score2, !.score2 = m.score1]

\* C29: the result does not depend on which side is listed first: from any
\* state of a singles or team replay, the pass over a record with player1 and
\* player2 (team1 and team2) and their scores exchanged leaves the same
\* ratings, histories and sequence number as the pass over the record itself.
C29_SideSwap ==
  [][Stepped /\ computer \in {"singles", "doubles"} =>
       LET st == IF computer = "singles" THEN singles_match(State, Swapped(Current))
                 ELSE doubles_match(State, Swapped(Current))
       IN  /\ st.ratings = ratings'
           /\ st.history = history'
           /\ st.match_number = match_number']_vars

\* a team match between sides of unequal ratings that the second team won
C29_Witness ==
  /\ WellFormedList
  /\ computer = "doubles" /\ Len(matches) = 2 /\ match_number = 3
  /\ matches[1].team2 = <<"A", "B">> /\ matches[1].score1 < matches[1].score2
  /\ matches[2].team1 = <<"A", "C">> /\ matches[2].team2 = <<"B", "D">>
  /\ matches[2].score1 < matches[2].score2
  /\ history["A"][2][2] > DEFAULT_RATING /\ history["D"][2][2] < DEFAULT_RATING
  /\ ratings["A"] < history["A"][2][2]
  /\ ratings["B"] > history["B"][2][2]

\* the side of a singles record with the higher score, and the other side
Higher(m) == IF m.score1 > m.score2 THEN m.player1 ELSE m.player2
Lower(m) == IF m.score1 > m.score2 THEN m.player2 ELSE m.player1

\* C30: in every accepted singles match between two distinct players the
\* rating of the higher-scoring player does not go down and the rating of the
\* lower-scoring player does not go up, whatever the two ratings were before
\* the match; neither is cut off at a floor or a ceiling.
C30_SinglesMonotonic ==
  [][/\ Stepped /\ computer = "singles" /\ Accepted(Current)
     /\ Current.player1 # Current.player2
     => /\ ratings'[Higher(Current)] >= Before(Higher(Current))
        /\ ratings'[Lower(Current)] <= Before(Lower(Current))]_vars

\* B, below 1000 after a loss to A, beats A, who is above 1000, and then
\* loses to C: B rises from below the baseline to above it and falls again,
\* A falls from above the baseline to below it
C30_Witness ==
  /\ WellFormedList
  /\ computer = "singles" /\ Len(matches) = 3 /\ match_number = 4
  /\ \A i \in 1..2 : {matches[i].player1, matches[i].player2} = {"A", "B"}
  /\ Higher(matches[1]) = "A" /\ Higher(matches[2]) = "B"
  /\ {matches[3].player1, matches[3].player2} = {"B", "C"}
  /\ Higher(matches[3]) = "C"
  /\ history["B"][2][2] < DEFAULT_RATING
  /\ history["B"][3][2] > DEFAULT_RATING
  /\ history["A"][3][2] < DEFAULT_RATING
  /\ ratings["B"] < history["B"][3][2]

====
